---- MODULE Spec2Model ----
(***************************************************************************)
(* Model of go.nvim.dev/pkg/runtime/autocmd: the table of Neovim autocmd   *)
(* event names declared as Go string constants, the goroutines that read   *)
(* them, and the edits of a literal that the alias declarations guard      *)
(* against; and of the CircleCI pipeline of .circleci/config.yml: the      *)
(* workflow's matrix of jobs and the steps each job instance runs.         *)
(***************************************************************************)
EXTENDS Naturals, Sequences, FiniteSets, TLC

VARIABLES
    edits,   \* identifier -> literal retyped by an edit of autocmd.go (none at first)
    table,   \* identifier -> string value, as the compiler evaluates the source
    obs,     \* reader -> the lookup it made (identifier and value seen)
    workflows  \* the job instances the workflow of .circleci/config.yml has started

vars == <<edits, table, obs, workflows>>

----------------------------------------------------------------------------
(* A const declaration: `Name = "literal"` or `Name = OtherName`. *)

Lit(n, v) == [name |-> n, kind |-> "lit", lit |-> v, ref |-> ""]

Ref(n, p) == [name |-> n, kind |-> "ref", lit |-> "", ref |-> p]

\* const block, lines 832-966: "List of autocmd events."
AutocmdEvents ==
    << Lit("BufAdd", "BufAdd"),
       Lit("BufDelete", "BufDelete"),
       Lit("BufEnter", "BufEnter"),
       Lit("BufFilePost", "BufFilePost"),
       Lit("BufFilePre", "BufFilePre"),
       Lit("BufHidden", "BufHidden"),
       Lit("BufLeave", "BufLeave"),
       Lit("BufModifiedSet", "BufModifiedSet"),
       Lit("BufNew", "BufNew"),
       Lit("BufNewFile", "BufNewFile"),
       Lit("BufReadPost", "BufReadPost"),
       Ref("BufRead", "BufReadPost"),
       Lit("BufReadCmd", "BufReadCmd"),
       Lit("BufReadPre", "BufReadPre"),
       Lit("BufUnload", "BufUnload"),
       Lit("BufWinEnter", "BufWinEnter"),
       Lit("BufWinLeave", "BufWinLeave"),
       Lit("BufWipeout", "BufWipeout"),
       Lit("BufWritePre", "BufWritePre"),
       Ref("BufWrite", "BufWritePre"),
       Lit("BufWriteCmd", "BufWriteCmd"),
       Lit("BufWritePost", "BufWritePost"),
       Lit("ChanInfo", "ChanInfo"),
       Lit("ChanOpen", "ChanOpen"),
       Lit("CmdUndefined", "CmdUndefined"),
       Lit("CmdlineChanged", "CmdlineChanged") >>

\* const block, lines 969-990: "List of Reading autocmd name."
ReadingEvents ==
    << Lit("FileReadPre", "FileReadPre"),
       Lit("FileReadPost", "FileReadPost"),
       Lit("FileReadCmd", "FileReadCmd"),
       Lit("FilterReadPre", "FilterReadPre"),
       Lit("FilterReadPost", "FilterReadPost"),
       Lit("StdinReadPre", "StdinReadPre"),
       Lit("StdinReadPost", "StdinReadPost") >>

\* const block, lines 993-1017: "List of Writing autocmd name."
WritingEvents ==
    << Lit("FileWritePre", "FileWritePre"),
       Lit("FileWritePost", "FileWritePost"),
       Lit("FileWriteCmd", "FileWriteCmd"),
       Lit("FileAppendPre", "FileAppendPre"),
       Lit("FileAppendPost", "FileAppendPost"),
       Lit("FileAppendCmd", "FileAppendCmd"),
       Lit("FilterWritePre", "FilterWritePre"),
       Lit("FilterWritePost", "FilterWritePost") >>

\* Slips in the Buffers block: the alias spelled out as its own literal, and
\* the alias given a second copy of the primary's literal.
BuffersEvents_OwnLiteral ==
    << Lit("BufCreate", "BufCreate"),
       Lit("SwapExists", "SwapExists") >>

BuffersEvents_SecondLiteral ==
    << Lit("BufCreate", "BufAdd"),
       Lit("SwapExists", "SwapExists") >>

\* Two more: the alias pointed at a name that is not declared, and the alias
\* pointed at another alias.
BuffersEvents_Dangling ==
    << Ref("BufCreate", "BufAdded"),
       Lit("SwapExists", "SwapExists") >>

BuffersEvents_Chained ==
    << Ref("BufCreate", "BufRead"),
       Lit("SwapExists", "SwapExists") >>

\* const block, lines 1020-1028: "List of Buffers autocmd name."
BuffersEvents ==
    << Ref("BufCreate", "BufAdd"),
       Lit("SwapExists", "SwapExists") >>

\* const block, lines 1031-1070: "List of Options autocmd name."
OptionsEvents ==
    << Lit("FileType", "FileType"),
       Lit("Syntax", "Syntax"),
       Lit("OptionSet", "OptionSet"),
       Lit("VimEnter", "VimEnter"),
       Lit("GUIEnter", "GUIEnter"),
       Lit("GUIFailed", "GUIFailed"),
       Lit("TermResponse", "TermResponse"),
       Lit("QuitPre", "QuitPre"),
       Lit("ExitPre", "ExitPre"),
       Lit("VimLeavePre", "VimLeavePre"),
       Lit("VimLeave", "VimLeave"),
       Lit("VimResume", "VimResume"),
       Lit("VimSuspend", "VimSuspend") >>

\* const block, lines 1073-1237: "List of Various autocmd name."
VariousEvents ==
    << Lit("DiffUpdated", "DiffUpdated"),
       Lit("FileChangedShell", "FileChangedShell"),
       Lit("FileChangedShellPost", "FileChangedShellPost"),
       Lit("FileChangedRO", "FileChangedRO"),
       Lit("ShellCmdPost", "ShellCmdPost"),
       Lit("ShellFilterPostafter", "ShellFilterPostafter"),
       Lit("FuncUndefined", "FuncUndefined"),
       Lit("SpellFileMissing", "SpellFileMissing"),
       Lit("SourcePre", "SourcePre"),
       Lit("SourceCmd", "SourceCmd"),
       Lit("VimResized", "VimResized"),
       Lit("FocusGained", "FocusGained"),
       Lit("FocusLost", "FocusLost"),
       Lit("CursorHold", "CursorHold"),
       Lit("CursorHoldI", "CursorHoldI"),
       Lit("CursorMoved", "CursorMoved"),
       Lit("CursorMovedI", "CursorMovedI"),
       Lit("WinEnter", "WinEnter"),
       Lit("WinScrolled", "WinScrolled"),
       Lit("WinLeavet", "WinLeavet"),
       Lit("WinClosed", "WinClosed"),
       Lit("TabNew", "TabNew"),
       Lit("TabNewEntered", "TabNewEntered"),
       Lit("TabEntert", "TabEntert"),
       Lit("TabLeavet", "TabLeavet"),
       Lit("TabClosed", "TabClosed"),
       Lit("CmdlineEnter", "CmdlineEnter"),
       Lit("CmdlineLeave", "CmdlineLeave"),
       Lit("CmdwinEnter", "CmdwinEnter"),
       Lit("CmdwinLeave", "CmdwinLeave"),
       Lit("InsertEnter", "InsertEnter"),
       Lit("InsertChange", "InsertChange"),
       Lit("InsertLeave", "InsertLeave"),
       Lit("InsertCharPre", "InsertCharPre"),
       Lit("TextYankPost", "TextYankPost"),
       Lit("TextChanged", "TextChanged"),
       Lit("TextChangedI", "TextChangedI"),
       Lit("TextChangedP", "TextChangedP"),
       Lit("ColorSchemePre", "ColorSchemePre"),
       Lit("ColorScheme", "ColorScheme"),
       Lit("RemoteReply", "RemoteReply"),
       Lit("QuickFixCmdPre", "QuickFixCmdPre"),
       Lit("QuickFixCmdPost", "QuickFixCmdPost"),
       Lit("SessionLoadPost", "SessionLoadPost"),
       Lit("MenuPopup", "MenuPopup"),
       Lit("CompleteChanged", "CompleteChanged"),
       Lit("CompleteDone", "CompleteDone"),
       Lit("DirChanged", "DirChanged"),
       Lit("Signal", "Signal"),
       Lit("User", "User") >>

\* Slips in the terminal block: a literal that drifts from its identifier,
\* and a literal that keeps a blank from the help text it was copied from.
TerminalEvents_Drifted ==
    << Lit("TermOpen", "TermOpen"),
       Lit("TermEnter", "TermEnter"),
       Lit("TermLeave", "TermLeave"),
       Lit("TermClose", "TermClosed") >>

TerminalEvents_Blank ==
    << Lit("TermOpen", "TermOpen "),
       Lit("TermEnter", "TermEnter"),
       Lit("TermLeave", "TermLeave"),
       Lit("TermClose", "TermClose") >>

\* One more: a literal that keeps the help text's tag marks.
TerminalEvents_Tagged ==
    << Lit("TermOpen", "TermOpen"),
       Lit("TermEnter", "*TermEnter*"),
       Lit("TermLeave", "TermLeave"),
       Lit("TermClose", "TermClose") >>

\* const block, lines 1240-1258: "List of terminal autocmd name."
TerminalEvents ==
    << Lit("TermOpen", "TermOpen"),
       Lit("TermEnter", "TermEnter"),
       Lit("TermLeave", "TermLeave"),
       Lit("TermClose", "TermClose") >>

\* Slips in the UI block: a literal pasted from the line above, and an
\* identifier declared a second time.
UIEvents_Pasted ==
    << Lit("UIEnter", "UIEnter"),
       Lit("UILeave", "UIEnter") >>

UIEvents_Redeclared ==
    << Lit("UIEnter", "UIEnter"),
       Lit("UILeave", "UILeave"),
       Lit("UIEnter", "UIAttach") >>

\* One more: an event declared again under the spelling the editor's source
\* uses for it, which differs from the help's only in the case of a letter.
UIEvents_CaseTwin ==
    << Lit("UIEnter", "UIEnter"),
       Lit("UILeave", "UILeave"),
       Lit("CmdWinEnter", "CmdWinEnter") >>

\* const block, lines 1261-1271: "List of UD autocmd name."
UIEvents ==
    << Lit("UIEnter", "UIEnter"),
       Lit("UILeave", "UILeave") >>
----------------------------------------------------------------------------
(* The events documented in the comment that opens the file (the text of   *)
(* the editor's help, from CmdlineEnter on), in the order they appear.     *)

DocEvents ==
    { "CmdlineEnter", "CmdlineLeave", "CmdwinEnter", "CmdwinLeave",
      "ColorScheme", "ColorSchemePre", "CompleteChanged", "CompleteDonePre",
      "CompleteDone", "CursorHold", "CursorHoldI", "CursorMoved",
      "CursorMovedI", "DiffUpdated", "DirChanged", "FileAppendCmd",
      "FileAppendPost", "FileAppendPre", "FileChangedRO", "ExitPre",
      "FileChangedShell", "FileChangedShellPost", "FileReadCmd", "FileReadPost",
      "FileReadPre", "FileType", "FileWriteCmd", "FileWritePost",
      "FileWritePre", "FilterReadPost", "FilterReadPre", "FilterWritePost",
      "FilterWritePre", "FocusGained", "FocusLost", "FuncUndefined",
      "UIEnter", "UILeave", "InsertChange", "InsertCharPre",
      "TextYankPost", "InsertEnter", "InsertLeavePre", "InsertLeave",
      "MenuPopup", "OptionSet", "QuickFixCmdPre", "QuickFixCmdPost",
      "QuitPre", "RemoteReply", "SessionLoadPost", "ShellCmdPost",
      "Signal", "ShellFilterPost", "SourcePre", "SourcePost",
      "SourceCmd", "SpellFileMissing", "StdinReadPost", "StdinReadPre",
      "SwapExists", "Syntax", "TabEnter", "TabLeave",
      "TabNew", "TabNewEntered", "TabClosed", "TermOpen",
      "TermEnter", "TermLeave", "TermClose", "TermResponse",
      "TextChanged", "TextChangedI", "TextChangedP", "User",
      "UserGettingBored", "VimEnter", "VimLeave", "VimLeavePre",
      "VimResized", "VimResume", "VimSuspend", "WinClosed",
      "WinEnter", "WinLeave", "WinNew", "WinScrolled" }

(* Event names of the host editor that the opening comment does not reach: *)
(* the part of the help's list before CmdlineEnter, the GUI events, the    *)
(* editor's own legacy aliases, and events added to the editor since.      *)
HostEventsBeyondDoc ==
    { "BufAdd", "BufCreate", "BufDelete", "BufEnter",
      "BufFilePost", "BufFilePre", "BufHidden", "BufLeave",
      "BufModifiedSet", "BufNew", "BufNewFile", "BufRead",
      "BufReadCmd", "BufReadPost", "BufReadPre", "BufUnload",
      "BufWinEnter", "BufWinLeave", "BufWipeout", "BufWrite",
      "BufWriteCmd", "BufWritePost", "BufWritePre", "ChanInfo",
      "ChanOpen", "CmdUndefined", "CmdlineChanged", "GUIEnter",
      "GUIFailed", "DiagnosticChanged", "DirChangedPre", "EncodingChanged",
      "FileEncoding", "LspAttach", "LspDetach", "LspProgress",
      "LspRequest", "LspTokenUpdate", "ModeChanged", "RecordingEnter",
      "RecordingLeave", "SafeState", "SearchWrapped", "TermChanged",
      "TermRequest", "WinResized" }

(* The vocabulary a subscription call of the host editor accepts. *)
HostEvents == DocEvents \cup HostEventsBeyondDoc

----------------------------------------------------------------------------
(* The declarations in source order, each tagged with the number of the    *)
(* const block that holds it.                                              *)

InBlock(b, ds) ==
    [i \in 1..Len(ds) |->
        [name |-> ds[i].name, kind |-> ds[i].kind, lit |-> ds[i].lit,
         ref |-> ds[i].ref, block |-> b]]

Decls ==
    InBlock(1, AutocmdEvents) \o InBlock(2, ReadingEvents) \o
    InBlock(3, WritingEvents) \o InBlock(4, BuffersEvents) \o
    InBlock(5, OptionsEvents) \o InBlock(6, VariousEvents) \o
    InBlock(7, TerminalEvents) \o InBlock(8, UIEvents)

(* The pairs <<alias, primary>> that the declarations' own comments        *)
(* document with "Alias of <primary>."                                     *)
DocumentedAliases ==
    { <<"BufRead", "BufReadPost">>,
      <<"BufWrite", "BufWritePre">>,
      <<"BufCreate", "BufAdd">> }

----------------------------------------------------------------------------
(* Constant evaluation, as the Go compiler does it: a literal is its own   *)
(* value; a reference takes the value of the constant it names, wherever   *)
(* in the package that constant is declared.                               *)

NamesOf(ds) == {ds[i].name : i \in DOMAIN ds}

DeclOf(ds, n) == ds[CHOOSE i \in DOMAIN ds : ds[i].name = n]

\* What evaluation yields for a reference that names no constant or that
\* leads back to itself (the compiler rejects such a package).
Undefined == "<undefined>"

RECURSIVE ConstValue(_, _, _)
ConstValue(ds, n, seen) ==
    IF n \in seen \/ n \notin NamesOf(ds)
    THEN Undefined
    ELSE LET d == DeclOf(ds, n)
         IN  IF d.kind = "lit"
             THEN d.lit
             ELSE ConstValue(ds, d.ref, seen \cup {n})

Compile(ds) == [n \in NamesOf(ds) |-> ConstValue(ds, n, {})]

----------------------------------------------------------------------------
(* The source as it is compiled: the declarations above, with the literals *)
(* that edits have retyped. There are no edits unless the maintenance      *)
(* steps further down make some.                                           *)

NoEdits == [n \in {} |-> ""]

Edited(ds, ed) ==
    [i \in DOMAIN ds |->
        IF ds[i].kind = "lit" /\ ds[i].name \in DOMAIN ed
        THEN [ds[i] EXCEPT !.lit = ed[ds[i].name]]
        ELSE ds[i]]

----------------------------------------------------------------------------
(* Readers: goroutines of a program that imports the package.              *)

Readers == {"r1", "r2"}

NoObs == [name |-> "", value |-> ""]

Init ==
    /\ edits = NoEdits
    /\ table = Compile(Decls)
    /\ obs = [r \in Readers |-> NoObs]
    /\ workflows = <<>>

\* Slips in a lookup: one that takes the entry out of the table as it reads
\* it, and one that reads through a scratch slot the readers share, so that a
\* reader gets what another reader still holds.
Lookup_Consuming(r, n) ==
    /\ obs[r] = NoObs
    /\ n \in DOMAIN table
    /\ obs' = [obs EXCEPT ![r] = [name |-> n, value |-> table[n]]]
    /\ table' = [m \in DOMAIN table \ {n} |-> table[m]]
    /\ UNCHANGED <<edits, workflows>>

Lookup_SharedScratch(r, n) ==
    /\ obs[r] = NoObs
    /\ n \in DOMAIN table
    /\ LET held == {q \in Readers : obs[q] # NoObs}
           v == IF held = {} THEN table[n] ELSE obs[CHOOSE q \in held : TRUE].value
       IN  obs' = [obs EXCEPT ![r] = [name |-> n, value |-> v]]
    /\ UNCHANGED <<edits, table, workflows>>

(* A reader with no value in hand evaluates the constant n and keeps what   *)
(* it read. Nothing is written.                                            *)
Lookup(r, n) ==
    /\ obs[r] = NoObs
    /\ n \in DOMAIN table
    /\ obs' = [obs EXCEPT ![r] = [name |-> n, value |-> table[n]]]
    /\ UNCHANGED <<edits, table, workflows>>

(* The reader is done with the value it read. *)
Release(r) ==
    /\ obs[r] # NoObs
    /\ obs' = [obs EXCEPT ![r] = NoObs]
    /\ UNCHANGED <<edits, table, workflows>>

Next ==
    \/ \E r \in Readers : \E n \in DOMAIN table : Lookup(r, n)
    \/ \E r \in Readers : Release(r)

Spec == Init /\ [][Next]_vars

----------------------------------------------------------------------------
(* Maintenance of the source: a later edit retypes the string literal of   *)
(* one declaration, and the package is compiled again. The alias           *)
(* declarations are what such an edit must not be able to desynchronise.   *)

\* The declarations an edit is tried on: the three primaries and two
\* constants that have no alias.
EditTargets == {"BufReadPost", "BufWritePre", "BufAdd", "BufEnter", "SwapExists"}

\* The spellings an edit may type.
EditValues == {"Renamed", "Retyped"}

EditLiteral(n, v) ==
    LET cur == Edited(Decls, edits)
        new == [m \in DOMAIN edits \cup {n} |-> IF m = n THEN v ELSE edits[m]]
    IN  /\ n \in NamesOf(cur)
        /\ DeclOf(cur, n).kind = "lit"
        /\ DeclOf(cur, n).lit # v
        /\ edits' = new
        \* the edited source is compiled again
        /\ \E src \in {Edited(Decls, new)} : table' = Compile(src)
        /\ UNCHANGED <<obs, workflows>>

NextEdit == \E n \in EditTargets : \E v \in EditValues : EditLiteral(n, v)

SpecEdit == Init /\ [][NextEdit]_vars

----------------------------------------------------------------------------
(* Helpers of the properties below.                                        *)

\* The table as it stands when the package has been compiled.
InitialTable == Compile(Decls)

\* The characters of a string, each as a string of length one.
Chars(s) == {SubSeq(s, i, i) : i \in 1..Len(s)}

\* Space, tab, line feed, carriage return, form feed.
Whitespace == {" ", "\t", "\n", "\r", "\f"}

Aliases == {p[1] : p \in DocumentedAliases}

IsAliasPair(a, b) == <<a, b>> \in DocumentedAliases \/ <<b, a>> \in DocumentedAliases

Holding(r) == obs[r] # NoObs

\* The declarations as they stand in the current state.
Source == Edited(Decls, edits)

----------------------------------------------------------------------------
(* C1: the two names of every documented alias pair (BufRead/BufReadPost,  *)
(* BufWrite/BufWritePre, BufCreate/BufAdd) have exactly the same string    *)
(* value, in the table and in what any two readers get for them.           *)
C1_AliasValuesEqual ==
    /\ \A p \in DocumentedAliases :
          /\ p[1] \in DOMAIN table
          /\ p[2] \in DOMAIN table
          /\ table[p[1]] = table[p[2]]
    /\ \A r1, r2 \in Readers :
          <<obs[r1].name, obs[r2].name>> \in DocumentedAliases
              => obs[r1].value = obs[r2].value

C1_Witness ==
    /\ obs["r1"] = [name |-> "BufCreate", value |-> "BufAdd"]
    /\ obs["r2"] = [name |-> "BufAdd", value |-> "BufAdd"]

(* C2: every value a reader gets from the table is an event name of the    *)
(* host editor's vocabulary, so that subscribing with it is not answered   *)
(* with "unknown event".                                                   *)
C2_ValuesKnownToHost ==
    \A r \in Readers : Holding(r) => obs[r].value \in HostEvents

(* C3: every constant that is not an alias (every one but BufRead,         *)
(* BufWrite and BufCreate) has its own identifier, letter for letter, as   *)
(* its value.                                                              *)
C3_ValueIsIdentifier ==
    /\ \A n \in DOMAIN table : n \notin Aliases => table[n] = n
    /\ \A r \in Readers :
          Holding(r) /\ obs[r].name \notin Aliases => obs[r].value = obs[r].name

C3_Witness ==
    /\ obs["r1"] = [name |-> "BufEnter", value |-> "BufEnter"]
    /\ obs["r2"] = [name |-> "TermClose", value |-> "TermClose"]

(* C4: two different names that give the same value are always one of the  *)
(* documented alias pairs; two different events never share a value.       *)
C4_NoUnintendedDuplicates ==
    \A r1, r2 \in Readers :
        /\ Holding(r1)
        /\ Holding(r2)
        /\ obs[r1].name # obs[r2].name
        /\ obs[r1].value = obs[r2].value
        => IsAliasPair(obs[r1].name, obs[r2].name)

C4_Witness ==
    /\ obs["r1"].name = "BufWrite"
    /\ obs["r2"].name = "BufWritePre"
    /\ obs["r1"].value = obs["r2"].value

(* C5: every event the opening comment of the file documents has a         *)
(* constant whose value is that event's name.                              *)
C5_EveryDocumentedEventHasHandle ==
    \A e \in DocEvents : \E n \in DOMAIN table : table[n] = e

(* C6: every value a reader gets is non-empty and holds no whitespace      *)
(* character.                                                              *)
C6_ValuesAreSingleTokens ==
    \A r \in Readers :
        Holding(r) =>
            /\ obs[r].value # ""
            /\ Chars(obs[r].value) \cap Whitespace = {}

C6_Witness ==
    /\ obs["r1"] = [name |-> "TermOpen", value |-> "TermOpen"]
    /\ obs["r2"] = [name |-> "FileChangedShellPost", value |-> "FileChangedShellPost"]
    /\ Len(obs["r2"].value) = 20

(* C7: the table is immutable: in every state, after any sequence of       *)
(* lookups, the table is what it was at initialisation (and the source is  *)
(* unedited); no entry is created, changed or removed.                     *)
C7_TableImmutable ==
    /\ edits = NoEdits
    /\ DOMAIN table = DOMAIN InitialTable
    /\ \A n \in DOMAIN InitialTable : table[n] = InitialTable[n]

C7_Witness ==
    /\ obs["r1"].name = "VimEnter"
    /\ obs["r2"].name = "VimLeave"
    /\ table["VimEnter"] = "VimEnter"
    /\ table["VimLeave"] = "VimLeave"

(* C8: under every interleaving of the readers' lookups, each reader holds *)
(* the declared value of the name it read, and two readers that hold the   *)
(* same name hold the same value.                                          *)
C8_ReadersAgree ==
    /\ \A r \in Readers :
          Holding(r) => obs[r].value = InitialTable[obs[r].name]
    /\ \A r1, r2 \in Readers :
          Holding(r1) /\ Holding(r2) /\ obs[r1].name = obs[r2].name
              => obs[r1].value = obs[r2].value

C8_Witness ==
    /\ obs["r1"] = [name |-> "WinScrolled", value |-> "WinScrolled"]
    /\ obs["r2"] = [name |-> "WinScrolled", value |-> "WinScrolled"]

----------------------------------------------------------------------------
(* The name-to-value relation the declarations state, one pair for each    *)
(* declaration, and the const blocks the declarations are spread over.     *)

Bindings(ds) ==
    {<<ds[i].name, IF ds[i].kind = "lit" THEN ds[i].lit ELSE ConstValue(ds, ds[i].ref, {})>> :
        i \in DOMAIN ds}

BlocksOf(ds) == {ds[i].block : i \in DOMAIN ds}

\* As many identifiers as declarations: none is declared twice. As many
\* pairs as identifiers: none has two values.
NamesUnique(ds) ==
    /\ Cardinality(NamesOf(ds)) = Len(ds)
    /\ Cardinality(Bindings(ds)) = Cardinality(NamesOf(ds))

(* C9, as amended: no identifier is declared more than once across the     *)
(* eight const blocks, so every name maps to exactly one value, which is   *)
(* the value a reader gets for it.                                         *)
C9_NamesUniqueInEightBlocks ==
    LET src == Source
    IN  /\ NamesUnique(src)
        /\ Cardinality(BlocksOf(src)) = 8
        /\ \A r \in Readers :
              Holding(r) => <<obs[r].name, obs[r].value>> \in Bindings(src)

(* C9, as stated: no identifier is declared more than once across the      *)
(* seven const blocks, so every name maps to exactly one value.            *)
C9_NamesUniqueInSevenBlocks ==
    LET src == Source
    IN  /\ NamesUnique(src)
        /\ Cardinality(BlocksOf(src)) = 7

C9_Witness ==
    /\ obs["r1"].name = "BufAdd"
    /\ DeclOf(Source, "BufAdd").block = 1
    /\ obs["r2"].name = "UILeave"
    /\ DeclOf(Source, "UILeave").block = 8

(* C10: every alias is declared by reference to its primary and not by a   *)
(* literal of its own, so the two values stay equal whatever an edit makes *)
(* of the primary's literal.                                               *)
C10_AliasBoundToPrimary ==
    LET src == Source
    IN  \A p \in DocumentedAliases :
            /\ DeclOf(src, p[1]).kind = "ref"
            /\ DeclOf(src, p[1]).ref = p[2]
            /\ DeclOf(src, p[2]).kind = "lit"
            /\ table[p[1]] = DeclOf(src, p[2]).lit
            /\ table[p[1]] = table[p[2]]

C10_Witness ==
    /\ DeclOf(Source, "BufAdd").lit = "Renamed"
    /\ table["BufCreate"] = "Renamed"
    /\ DeclOf(Source, "BufReadPost").lit = "Retyped"
    /\ table["BufRead"] = "Retyped"

----------------------------------------------------------------------------
(* C11: a lookup cannot fail: every declared name is in the table with a   *)
(* string that is not an error outcome, and what a reader holds is the     *)
(* string of a declared name, never an error.                              *)
C11_LookupNeverFails ==
    /\ NamesOf(Decls) \subseteq DOMAIN table
    /\ \A n \in DOMAIN table : table[n] \in STRING /\ table[n] # Undefined
    /\ \A r \in Readers :
          Holding(r) =>
              /\ obs[r].name \in NamesOf(Decls)
              /\ obs[r].value \in STRING
              /\ obs[r].value # Undefined

C11_Witness ==
    /\ obs["r1"] = [name |-> "BufCreate", value |-> "BufAdd"]
    /\ obs["r2"] = [name |-> "User", value |-> "User"]

----------------------------------------------------------------------------
(* Characters of an identifier.                                            *)

UpperLetters ==
    { "A", "B", "C", "D", "E", "F", "G", "H", "I", "J", "K", "L", "M",
      "N", "O", "P", "Q", "R", "S", "T", "U", "V", "W", "X", "Y", "Z" }

LowerLetters ==
    { "a", "b", "c", "d", "e", "f", "g", "h", "i", "j", "k", "l", "m",
      "n", "o", "p", "q", "r", "s", "t", "u", "v", "w", "x", "y", "z" }

Digits == { "0", "1", "2", "3", "4", "5", "6", "7", "8", "9" }

Letters == UpperLetters \cup LowerLetters

IsIdentifier(s) ==
    /\ Len(s) >= 1
    /\ SubSeq(s, 1, 1) \in Letters
    /\ Chars(s) \subseteq Letters \cup Digits

(* C12: every value a reader gets is a valid identifier: it starts with an *)
(* ASCII letter and holds only ASCII letters and digits.                   *)
C12_ValuesAreIdentifiers ==
    \A r \in Readers : Holding(r) => IsIdentifier(obs[r].value)

C12_Witness ==
    /\ obs["r1"] = [name |-> "TermEnter", value |-> "TermEnter"]
    /\ obs["r2"] = [name |-> "FileChangedRO", value |-> "FileChangedRO"]
    /\ IsIdentifier(obs["r1"].value)

----------------------------------------------------------------------------
(* The number of references evaluation follows from the name n to a        *)
(* literal. A reference to an undeclared name, or one that leads back to a *)
(* name already passed, never gets there: it counts as one more than there *)
(* are declarations.                                                       *)

RECURSIVE RefSteps(_, _, _)
RefSteps(ds, n, seen) ==
    IF n \in seen \/ n \notin NamesOf(ds)
    THEN Len(ds) + 1
    ELSE LET d == DeclOf(ds, n)
         IN  IF d.kind = "lit"
             THEN 0
             ELSE 1 + RefSteps(ds, d.ref, seen \cup {n})

AliasDecls(ds) == {i \in DOMAIN ds : ds[i].kind = "ref"}

(* C15: alias resolution ends after one step: every alias refers directly  *)
(* to a declared constant that has a string literal (no alias of an alias, *)
(* no undeclared name, no cycle), also when the target is declared in      *)
(* another const block, and a reader of an alias gets that literal.        *)
C15_AliasResolvesInOneStep ==
    LET src == Source
    IN  /\ \A i \in AliasDecls(src) :
              /\ src[i].ref \in NamesOf(src)
              /\ src[i].ref # src[i].name
              /\ DeclOf(src, src[i].ref).kind = "lit"
              /\ RefSteps(src, src[i].name, {}) = 1
        /\ \A r \in Readers :
              Holding(r) /\ DeclOf(src, obs[r].name).kind = "ref"
                  => obs[r].value = DeclOf(src, DeclOf(src, obs[r].name).ref).lit

C15_Witness ==
    /\ obs["r1"] = [name |-> "BufCreate", value |-> "BufAdd"]
    /\ DeclOf(Source, "BufCreate").block = 4
    /\ DeclOf(Source, "BufAdd").block = 1
    /\ obs["r2"] = [name |-> "BufRead", value |-> "BufReadPost"]
    /\ RefSteps(Source, "BufCreate", {}) = 1

----------------------------------------------------------------------------
(* Case folding, as the host editor applies it when it matches an event    *)
(* name: every upper-case ASCII letter becomes its lower-case letter.      *)

LowerOf(c) ==
    CASE c = "A" -> "a" [] c = "B" -> "b" [] c = "C" -> "c" [] c = "D" -> "d"
      [] c = "E" -> "e" [] c = "F" -> "f" [] c = "G" -> "g" [] c = "H" -> "h"
      [] c = "I" -> "i" [] c = "J" -> "j" [] c = "K" -> "k" [] c = "L" -> "l"
      [] c = "M" -> "m" [] c = "N" -> "n" [] c = "O" -> "o" [] c = "P" -> "p"
      [] c = "Q" -> "q" [] c = "R" -> "r" [] c = "S" -> "s" [] c = "T" -> "t"
      [] c = "U" -> "u" [] c = "V" -> "v" [] c = "W" -> "w" [] c = "X" -> "x"
      [] c = "Y" -> "y" [] c = "Z" -> "z" [] OTHER -> c

RECURSIVE ToLower(_)
ToLower(s) ==
    IF Len(s) = 0
    THEN ""
    ELSE LowerOf(SubSeq(s, 1, 1)) \o ToLower(SubSeq(s, 2, Len(s)))

(* C16: two constants that are not an alias pair never have values that    *)
(* are equal when letter case is ignored.                                  *)
C16_DistinctIgnoringCase ==
    \A r1, r2 \in Readers :
        /\ Holding(r1)
        /\ Holding(r2)
        /\ obs[r1].name # obs[r2].name
        /\ ~IsAliasPair(obs[r1].name, obs[r2].name)
        => ToLower(obs[r1].value) # ToLower(obs[r2].value)

C16_Witness ==
    /\ obs["r1"].name = "CmdlineEnter"
    /\ obs["r2"].name = "CmdwinEnter"
    /\ ToLower(obs["r1"].value) = "cmdlineenter"
    /\ ToLower(obs["r2"].value) = "cmdwinenter"

----------------------------------------------------------------------------
(* C17: the table declares exactly 112 names; exactly three of them        *)
(* (BufRead, BufWrite, BufCreate) are aliases and 109 have a string        *)
(* literal; the 112 names give exactly 109 different values.               *)
C17_Counts ==
    LET src == Source
    IN  /\ Len(src) = 112
        /\ Cardinality(NamesOf(src)) = 112
        /\ Cardinality(DOMAIN table) = 112
        /\ {src[i].name : i \in AliasDecls(src)} = {"BufRead", "BufWrite", "BufCreate"}
        /\ Cardinality(AliasDecls(src)) = 3
        /\ Cardinality({i \in DOMAIN src : src[i].kind = "lit"}) = 109
        /\ Cardinality({table[n] : n \in DOMAIN table}) = 109

C17_Witness ==
    /\ obs["r1"] = [name |-> "BufWrite", value |-> "BufWritePre"]
    /\ obs["r2"] = [name |-> "UILeave", value |-> "UILeave"]
    /\ Cardinality(DOMAIN table) = 112
    /\ Cardinality({table[n] : n \in DOMAIN table}) = 109

----------------------------------------------------------------------------
(* The CircleCI pipeline of .circleci/config.yml.                          *)

\* workflows_matrix: the parameter values the workflow runs each job with.
workflows_matrix_NoWindows ==
    [os |-> <<"linux", "darwin">>, go_version |-> <<"1.16">>]

workflows_matrix ==
    [os |-> <<"linux", "darwin", "windows">>, go_version |-> <<"1.16">>]

\* workflows: the jobs of the workflow, each with the matrix above.
WorkflowJobs == <<"test", "lint">>

\* jobs_parameters: the values the enum parameter os of a job admits.
jobs_parameters_os == {"linux", "darwin", "windows"}

\* executors: the environment each executor starts a job with.
ExecutorEnvironment(os, go_version) ==
    CASE os = "darwin" -> {<<"CI", "true">>, <<"GOLANG_VERSION", go_version>>}
      [] os = "windows" -> {<<"CI", "true">>, <<"GOLANG_VERSION", go_version>>}
      [] OTHER -> {}

\* The value of a variable in a set of <<variable, value>> pairs; the empty
\* string when it is not set, as the shell expands it.
ValueOf(env, var) ==
    IF \E b \in env : b[1] = var
    THEN (CHOOSE b \in env : b[1] = var)[2]
    ELSE ""

(* Conditions of a `when`: a value is truthy unless it is the empty        *)
(* string; `or` holds when one of its arguments is truthy; `equal` holds   *)
(* when its two arguments are the same.                                    *)
Truthy(v) == v # ""

WhenOr(args) == \E k \in DOMAIN args : Truthy(args[k])

WhenEqual(a, b) == a = b

(* A step that ran: its name, the programs it invoked, the variables it    *)
(* exported to $BASH_ENV and, if it wrote ~/.go_version, what it wrote.    *)
Step(name, programs) ==
    [name |-> name, programs |-> programs, exports |-> {}, go_version_file |-> <<>>]

\* commands.setup_git
setup_git(os) ==
    IF WhenEqual("windows", os)
    THEN << Step("git config --global core.autocrlf false", {"git config"}) >>
    ELSE << >>

\* The step "Setup go runtime sha256 file": the case statement sets the
\* variable for darwin and for windows and leaves it as it is otherwise.
GolangDownloadSha256(os, env) ==
    CASE os = "darwin" -> "6000a9522975d116bf76044967d7e69e04e982e9625330d9a539a8b45395f9a8"
      [] os = "windows" -> "5cc88fa506b3d5c453c54c3ea218fc8dd05d7362ae1de15bb67986b72089ce93"
      [] OTHER -> ValueOf(env, "GOLANG_DOWNLOAD_SHA256")

SetupSha256File(os, env) ==
    [name |-> "Setup go runtime sha256 file",
     programs |-> {"echo"},
     exports |-> {<<"GOLANG_DOWNLOAD_SHA256", GolangDownloadSha256(os, env)>>},
     go_version_file |-> <<GolangDownloadSha256(os, env)>>]

\* commands.setup_go
setup_go(os, go_version, env) ==
    (IF WhenOr(<<"darwin", "windows", os>>)
     THEN << SetupSha256File(os, env) >>
     ELSE << >>)
    \o
    (IF WhenEqual("darwin", os)
     THEN << [name |-> "Set PATH and Fix directory permission",
              programs |-> {"echo", "sudo chown"},
              exports |-> {<<"PATH", "$HOME/go/bin:/usr/local/go/bin:$PATH">>},
              go_version_file |-> <<>>],
             Step("Restore Go runtime cache", {"restore_cache"}),
             Step("Install Go runnime", {"curl", "tar"}),
             Step("Save Go runtime cache", {"save_cache"}) >>
     ELSE << >>)
    \o
    (IF WhenEqual("windows", os)
     THEN << [name |-> "Set PATH and GOPATH",
              programs |-> {"echo", "rm"},
              exports |-> {<<"PATH", "/c/Users/circleci/gopath/bin:/c/go/bin:/c/neovim/bin:$PATH">>,
                           <<"GOPATH", "/c/Users/circleci/gopath">>},
              go_version_file |-> <<>>],
             Step("Restore Go runtime cache", {"restore_cache"}),
             Step("Install Go runnime", {"curl", "unzip", "rm"}),
             Step("Save Go runtime cache", {"save_cache"}) >>
     ELSE << >>)

\* commands.check_go
check_go ==
    << Step("Check Go environment", {"printenv", "sort", "echo", "go version", "go env"}) >>

\* commands.setup_nvim
setup_nvim(os) ==
    (IF WhenEqual("linux", os)
     THEN << Step("Install nvim binary", {"curl", "tar", "nvim --version"}) >>
     ELSE << >>)
    \o
    (IF WhenEqual("darwin", os)
     THEN << Step("Install nvim binary", {"curl", "tar", "nvim --version"}) >>
     ELSE << >>)
    \o
    (IF WhenEqual("windows", os)
     THEN << Step("Install nvim binary", {"curl", "unzip", "rm", "nvim.exe --version"}) >>
     ELSE << >>)

\* jobs.test and jobs.lint: the steps of a job, the same list for both.
JobSteps(job) ==
    CASE job = "test" -> <<"setup_git", "checkout", "setup_go", "check_go", "setup_nvim">>
      [] job = "lint" -> <<"setup_git", "checkout", "setup_go", "check_go", "setup_nvim">>

\* The steps an entry of a job's steps expands to.
Expand(cmd, os, go_version, env) ==
    CASE cmd = "setup_git" -> setup_git(os)
      [] cmd = "checkout" -> << Step("checkout", {"git"}) >>
      [] cmd = "setup_go" -> setup_go(os, go_version, env)
      [] cmd = "check_go" -> check_go
      [] cmd = "setup_nvim" -> setup_nvim(os)

\* The programs of the Go tool that compile the package.
CompilePrograms == {"go build", "go test", "go vet", "go install", "go run"}

(* The matrix of a job: one combination for every os and every go_version *)
(* of workflows_matrix, in the order of the lists.                         *)
MatrixCombinations(matrix) ==
    [k \in 1..(Len(matrix.os) * Len(matrix.go_version)) |->
        [os |-> matrix.os[((k - 1) \div Len(matrix.go_version)) + 1],
         go_version |-> matrix.go_version[((k - 1) % Len(matrix.go_version)) + 1]]]

\* A job instance as the workflow starts it: no step run yet.
NewInstance(job, c) ==
    [job |-> job, os |-> c.os, go_version |-> c.go_version,
     pc |-> 0, log |-> <<>>,
     exported |-> {}, go_version_file |-> <<>>, built |-> FALSE]

InstancesOf(job, matrix) ==
    LET cs == MatrixCombinations(matrix)
    IN  [k \in DOMAIN cs |-> NewInstance(job, cs[k])]

RECURSIVE WorkflowInstances(_, _)
WorkflowInstances(jobs, matrix) ==
    IF jobs = <<>>
    THEN <<>>
    ELSE InstancesOf(Head(jobs), matrix) \o WorkflowInstances(Tail(jobs), matrix)

(* The workflow is triggered: every job is instantiated for every          *)
(* combination of its matrix. A value outside the enum of the parameter os *)
(* makes the configuration invalid, and nothing runs.                      *)
Trigger ==
    /\ workflows = <<>>
    /\ \A k \in DOMAIN workflows_matrix.os : workflows_matrix.os[k] \in jobs_parameters_os
    /\ workflows' = WorkflowInstances(WorkflowJobs, workflows_matrix)
    /\ UNCHANGED <<edits, table, obs>>

(* The environment a step of the instance starts with: the executor's      *)
(* variables, overridden by what earlier steps appended to $BASH_ENV,      *)
(* which every step's shell reads again.                                   *)
EnvOf(i) ==
    {b \in ExecutorEnvironment(i.os, i.go_version) :
        ~\E e \in i.exported : e[1] = b[1]}
    \cup i.exported

(* The steps of a job once its commands are expanded for the parameters:   *)
(* a command whose conditions hold for no step contributes none. Each step *)
(* keeps the name of the entry of the job's steps it comes from.           *)
RECURSIVE FlatSteps(_, _, _, _)
FlatSteps(cmds, os, go_version, env) ==
    IF cmds = <<>>
    THEN <<>>
    ELSE LET ss == Expand(Head(cmds), os, go_version, env)
         IN  [j \in DOMAIN ss |-> [cmd |-> Head(cmds), step |-> ss[j]]]
             \o FlatSteps(Tail(cmds), os, go_version, env)

StepsOf(i) == FlatSteps(JobSteps(i.job), i.os, i.go_version, EnvOf(i))

(* A job instance runs its next step, one step in a shell of its own: the  *)
(* step is logged, and what it appends to $BASH_ENV replaces the earlier   *)
(* export of the same variable.                                            *)
RunStep(k) ==
    /\ k \in DOMAIN workflows
    /\ \E steps \in {StepsOf(workflows[k])} :
          /\ workflows[k].pc < Len(steps)
          /\ \E ran \in {steps[workflows[k].pc + 1].step} :
                LET i == workflows[k]
                    compiled ==
                        /\ ran.programs \cap CompilePrograms # {}
                        /\ \E j \in DOMAIN steps : steps[j].cmd = "checkout"
                        /\ \E j \in DOMAIN steps : steps[j].cmd = "setup_go"
                        /\ \A j \in DOMAIN steps :
                              steps[j].cmd \in {"checkout", "setup_go"} => j <= i.pc
                IN  workflows' = [workflows EXCEPT ![k] =
                        [i EXCEPT
                           !.pc = i.pc + 1,
                           !.log = Append(i.log, ran.name),
                           !.exported =
                               {e \in i.exported : ~\E n \in ran.exports : n[1] = e[1]}
                               \cup ran.exports,
                           !.go_version_file =
                               IF ran.go_version_file = <<>>
                               THEN i.go_version_file
                               ELSE ran.go_version_file,
                           !.built = i.built \/ compiled]]
    /\ UNCHANGED <<edits, table, obs>>

NextCI ==
    \/ Trigger
    \/ \E k \in DOMAIN workflows : RunStep(k)

SpecCI == Init /\ [][NextCI]_vars

Done(i) == i.pc = Len(StepsOf(i))

Triggered == workflows # <<>>

Ran(i, name) == \E j \in DOMAIN i.log : i.log[j] = name

----------------------------------------------------------------------------
(* C13: the workflow instantiates each of its jobs, test and lint, once    *)
(* for every combination of os in {linux, darwin, windows} and go_version  *)
(* in {1.16}, and for no other combination: six instances.                 *)
C13_MatrixInstances ==
    Triggered =>
        /\ {<<workflows[k].job, workflows[k].os, workflows[k].go_version>> : k \in DOMAIN workflows}
               = {"test", "lint"} \X {"linux", "darwin", "windows"} \X {"1.16"}
        /\ \A k, h \in DOMAIN workflows :
              /\ workflows[k].job = workflows[h].job
              /\ workflows[k].os = workflows[h].os
              /\ workflows[k].go_version = workflows[h].go_version
              => k = h
        /\ Len(workflows) = 6

C13_Witness ==
    /\ Triggered
    /\ \E k \in DOMAIN workflows :
          /\ workflows[k].job = "lint"
          /\ workflows[k].os = "windows"
          /\ workflows[k].go_version = "1.16"
          /\ Done(workflows[k])
    /\ \E k \in DOMAIN workflows :
          /\ workflows[k].job = "test"
          /\ workflows[k].os = "linux"
          /\ workflows[k].pc = 0

(* C14: every run of the test job, on each platform, has run a step that   *)
(* compiles the package, after checkout and the Go setup, by the time it   *)
(* has run all its steps.                                                  *)
C14_TestJobCompiles ==
    \A k \in DOMAIN workflows :
        workflows[k].job = "test" /\ Done(workflows[k]) => workflows[k].built

(* C18: the step "Setup go runtime sha256 file" runs only when os is       *)
(* darwin or windows; for linux it is skipped, GOLANG_DOWNLOAD_SHA256 is   *)
(* not exported and ~/.go_version is not written.                          *)
C18_Sha256StepSkippedOnLinux ==
    \A k \in DOMAIN workflows :
        /\ Ran(workflows[k], "Setup go runtime sha256 file")
              => workflows[k].os \in {"darwin", "windows"}
        /\ workflows[k].os = "linux" =>
              /\ ~\E b \in workflows[k].exported : b[1] = "GOLANG_DOWNLOAD_SHA256"
              /\ workflows[k].go_version_file = <<>>

====
